---- MODULE Spec2Model ----
(***************************************************************************)
(* Satellite trajectory classification: the rule classifier of             *)
(* js/prediction_engine.js (class SatelliteClassifier) and the classifier  *)
(* of assets/js/app.js (predictSatellite), with their input validation.    *)
(*                                                                         *)
(* Number representation.  The JavaScript code works on doubles; the model *)
(* works on integers in fixed point:                                       *)
(*   latitude, longitude        tenths of a degree          (DegScale)     *)
(*   position components        half kilometres             (PosScale)     *)
(*   velocity components        hundredths of a km/s        (VelScale)     *)
(*   radial distance, altitude  1/40 km        (PosScale * 2 * PosRefine)  *)
(*   total velocity             1/2000 km/s    (VelScale * 2 * VelRefine)  *)
(*   confidence, probabilities  1/100000                    (ConfScale)    *)
(* Math.sqrt is modelled by SqrtRep: the root is located on a grid Refine  *)
(* times finer than the input unit; a root that lies on the grid is        *)
(* represented exactly (an even number), a root strictly between two grid  *)
(* points is represented by the midpoint of its cell (an odd number).      *)
(* Comparisons of a root with a threshold on the grid are therefore exact. *)
(***************************************************************************)
EXTENDS Integers, Sequences, FiniteSets, TLC

VARIABLES
    \* a SatelliteClassifier, a sample and the results of the two classifiers
    rules, sample, engineResult, appResult,
    \* assets/js/app.js: the selected CSV file, whether its read is under way,
    \* the outcome of the last reader.onload, the prediction log, the data of
    \* the form submissions whose 1-second timer has not fired yet, and the
    \* text of the #totalPredictions element
    file, reading, batch, predictionLog, pending, totalPredictions,
    \* PerformanceMonitor: its log and its metrics
    monLog, metrics,
    \* a feature vector and its normalisation; the explanations of the results
    features, normalized, appNormalized, explanation, engineExplanation,
    \* assets/js/auth.js: the item under SESSION_KEY in localStorage and in
    \* sessionStorage, the clock in hours, what the last call of the module
    \* returned, and the session written by the last successful login
    localStorage, sessionStorage, now, authResult, lastLogin,
    \* what getHistory last returned, and the rows downloadBatchResults last
    \* put into the downloaded file
    history, exported,
    \* the data of the valid form submissions so far, and how the timer
    \* callbacks that have run so far ended
    submissions, outcomes

classifierVars == <<rules, sample, engineResult, appResult>>

appVars == <<file, reading, batch, predictionLog, pending, totalPredictions>>

monitorVars == <<monLog, metrics>>

utilVars ==
    <<features, normalized, appNormalized, explanation, engineExplanation>>

authVars == <<localStorage, sessionStorage, now, authResult, lastLogin>>

queryVars == <<history, exported>>

observerVars == <<submissions, outcomes>>

vars ==
    <<classifierVars, appVars, monitorVars, utilVars, authVars, queryVars,
      observerVars>>

---------------------------------------------------------------------------
(* Fixed-point scales *)

DegScale == 10

PosScale == 2

VelScale == 100

PosRefine == 10

VelRefine == 10

ConfScale == 100000

\* n kilometres in the unit of radial distance and altitude
Km(n) == n * PosScale * 2 * PosRefine

\* n hundredths of a km/s in the unit of total velocity
Kms(n) == n * 2 * VelRefine

\* n hundredths in the unit of confidence
Conf(n) == n * (ConfScale \div 100)

Abs(n) == IF n < 0 THEN -n ELSE n

Min(a, b) == IF a <= b THEN a ELSE b

Max(a, b) == IF a >= b THEN a ELSE b

RECURSIVE ISqrtIter(_, _, _)
\* largest r with r*r <= s, searched in lo..hi-1 (lo*lo <= s < hi*hi)
ISqrtIter(s, lo, hi) ==
    IF hi - lo <= 1 THEN lo
    ELSE LET mid == (lo + hi) \div 2
         IN IF mid * mid <= s THEN ISqrtIter(s, mid, hi)
                              ELSE ISqrtIter(s, lo, mid)

ISqrt(s) == ISqrtIter(s, 0, 46341)

RECURSIVE RefineDigit(_, _, _, _)
\* largest k in 0..f-1 with (f*r + k)^2 <= f*f*(r*r + rem)
RefineDigit(r, rem, f, k) ==
    IF k = 0 \/ 2 * f * r * k + k * k <= f * f * rem THEN k
    ELSE RefineDigit(r, rem, f, k - 1)

\* Math.sqrt(s) in units of 1/(2f) of the unit whose square s is counted in
SqrtRep(s, f) ==
    LET r == ISqrt(s)
        rem == s - r * r
        k == RefineDigit(r, rem, f, f - 1)
        exact == (2 * f * r * k + k * k = f * f * rem)
    IN 2 * (f * r + k) + (IF exact THEN 0 ELSE 1)

---------------------------------------------------------------------------
(* Values of a field of an input object *)

Num(v) == [k |-> "num", v |-> v]

Undefined == [k |-> "undefined", v |-> 0]

Null == [k |-> "null", v |-> 0]

NaN == [k |-> "NaN", v |-> 0]

\* data[field] === undefined || data[field] === null
IsMissing(x) == x.k \in {"undefined", "null"}

\* typeof data[field] !== 'number' || isNaN(data[field])
IsNotNumber(x) == x.k # "num"

---------------------------------------------------------------------------
(* Configuration: js/model_config.js *)

EARTH_RADIUS_KM == 6371

\* GRAVITATIONAL_CONSTANT 398600.4418 km^3/s^2, in hundredths
GRAVITATIONAL_CONSTANT_E2 == 39860044

classes == <<"ISS", "Sentinel1A">>

Rule(altLo, altHi, velLo, velHi, radLo, radHi) ==
    [altitude_range  |-> <<Km(altLo), Km(altHi)>>,
     velocity_range  |-> <<Kms(velLo), Kms(velHi)>>,
     radial_distance |-> <<Km(radLo), Km(radHi)>>]

classificationRules ==
    [ISS        |-> Rule(400, 410, 760, 770, 6771, 6781),
     Sentinel1A |-> Rule(690, 710, 740, 750, 7061, 7081)]

\* Rule tables a SatelliteClassifier can be constructed with: the configured
\* one and two in which the rule sets of the two classes overlap.
RuleTables ==
    { classificationRules,
      [ISS        |-> Rule(400, 410, 760, 770, 6771, 6781),
       Sentinel1A |-> Rule(400, 710, 740, 770, 6771, 7081)],
      [ISS        |-> Rule(400, 710, 740, 770, 6771, 7081),
       Sentinel1A |-> Rule(690, 710, 740, 750, 7061, 7081)] }

---------------------------------------------------------------------------
(* js/prediction_engine.js: class SatelliteClassifier *)

\* The input object handed to SatelliteClassifier.predict
EngineInput(s) ==
    [latitude |-> s.lat, longitude |-> s.lon,
     x_eci_km |-> s.x, y_eci_km |-> s.y, z_eci_km |-> s.z,
     velocity_x |-> s.vx, velocity_y |-> s.vy, velocity_z |-> s.vz]

required ==
    <<"latitude", "longitude", "x_eci_km", "y_eci_km",
      "z_eci_km", "velocity_x", "velocity_y", "velocity_z">>

Err(kind, field) == [kind |-> kind, field |-> field]

RECURSIVE FirstFieldError(_, _)
\* the loop over `required`: the errors thrown by its first failing field
FirstFieldError(data, i) ==
    IF i > Len(required) THEN << >>
    ELSE IF IsMissing(data[required[i]])
         THEN << Err("Missing required field", required[i]) >>
    ELSE IF IsNotNumber(data[required[i]])
         THEN << Err("Invalid value for field", required[i]) >>
    ELSE FirstFieldError(data, i + 1)

\* validateInput: the sequence of errors thrown (empty: the input is valid)
SatelliteClassifier_validateInput(data) ==
    LET fieldError == FirstFieldError(data, 1)
    IN IF fieldError # << >> THEN fieldError
       ELSE IF data.latitude.v < -90 * DegScale \/ data.latitude.v > 90 * DegScale
            THEN << Err("must be between -90 and 90", "latitude") >>
       ELSE IF data.longitude.v < -180 * DegScale \/ data.longitude.v > 180 * DegScale
            THEN << Err("must be between -180 and 180", "longitude") >>
       ELSE << >>

Infinity == [finite |-> FALSE, v |-> 0]

Finite(v) == [finite |-> TRUE, v |-> v]

\* Math.sqrt(GRAVITATIONAL_CONSTANT / radialDistance), in hundredths of a km/s
OrbitalVelocity(radialDistance) ==
    IF radialDistance = 0 THEN Infinity
    ELSE Finite(ISqrt(((GRAVITATIONAL_CONSTANT_E2 * 2 * PosScale * PosRefine)
                         \div radialDistance) * 100))

\* calculateDerivedFeatures with the Earth radius not subtracted
SatelliteClassifier_calculateDerivedFeatures_NoRadius(data) ==
    LET totalVelocity ==
            SqrtRep(data.velocity_x.v * data.velocity_x.v
                      + data.velocity_y.v * data.velocity_y.v
                      + data.velocity_z.v * data.velocity_z.v, VelRefine)
        radialDistance ==
            SqrtRep(data.x_eci_km.v * data.x_eci_km.v
                      + data.y_eci_km.v * data.y_eci_km.v
                      + data.z_eci_km.v * data.z_eci_km.v, PosRefine)
    IN [totalVelocity   |-> totalVelocity,
        radialDistance  |-> radialDistance,
        altitude        |-> radialDistance,
        orbitalVelocity |-> OrbitalVelocity(radialDistance)]

SatelliteClassifier_calculateDerivedFeatures(data) ==
    LET totalVelocity ==
            SqrtRep(data.velocity_x.v * data.velocity_x.v
                      + data.velocity_y.v * data.velocity_y.v
                      + data.velocity_z.v * data.velocity_z.v, VelRefine)
        radialDistance ==
            SqrtRep(data.x_eci_km.v * data.x_eci_km.v
                      + data.y_eci_km.v * data.y_eci_km.v
                      + data.z_eci_km.v * data.z_eci_km.v, PosRefine)
    IN [totalVelocity   |-> totalVelocity,
        radialDistance  |-> radialDistance,
        altitude        |-> radialDistance - Km(EARTH_RADIUS_KM),
        orbitalVelocity |-> OrbitalVelocity(radialDistance)]

\* matchesRules with the lower altitude bound exclusive
matchesRules_StrictLower(rls, derived, satelliteName) ==
    LET r == rls[satelliteName]
    IN /\ derived.altitude > r.altitude_range[1]
       /\ derived.altitude <= r.altitude_range[2]
       /\ derived.totalVelocity >= r.velocity_range[1]
       /\ derived.totalVelocity <= r.velocity_range[2]
       /\ derived.radialDistance >= r.radial_distance[1]
       /\ derived.radialDistance <= r.radial_distance[2]

matchesRules(rls, derived, satelliteName) ==
    LET r == rls[satelliteName]
        altitudeMatch == derived.altitude >= r.altitude_range[1]
                         /\ derived.altitude <= r.altitude_range[2]
        velocityMatch == derived.totalVelocity >= r.velocity_range[1]
                         /\ derived.totalVelocity <= r.velocity_range[2]
        radialMatch == derived.radialDistance >= r.radial_distance[1]
                       /\ derived.radialDistance <= r.radial_distance[2]
    IN altitudeMatch /\ velocityMatch /\ radialMatch

\* 1 - Math.min(Math.abs(value - center) / range, 1)
RangeScore(value, range) ==
    LET center == (range[1] + range[2]) \div 2
        width == range[2] - range[1]
    IN ConfScale - (Min(Abs(value - center), width) * ConfScale) \div width

\* altitudeScore * 0.6 + velocityScore * 0.4
Blend(rls, derived, prediction) ==
    (6 * RangeScore(derived.altitude, rls[prediction].altitude_range)
       + 4 * RangeScore(derived.totalVelocity, rls[prediction].velocity_range))
    \div 10

\* calculateConfidence without the boost of a rule match
calculateConfidence_NoBoost(rls, derived, prediction) ==
    Max(Blend(rls, derived, prediction), Conf(50))

calculateConfidence(rls, derived, prediction) ==
    IF matchesRules(rls, derived, prediction)
    THEN Max(Blend(rls, derived, prediction), Conf(90))
    ELSE Max(Blend(rls, derived, prediction), Conf(50))

\* Classify without the fallback branch
Classify_NoFallback(rls, derived) ==
    IF matchesRules(rls, derived, "ISS")
    THEN [prediction |-> "ISS",
          confidence |-> calculateConfidence(rls, derived, "ISS")]
    ELSE IF matchesRules(rls, derived, "Sentinel1A")
    THEN [prediction |-> "Sentinel1A",
          confidence |-> calculateConfidence(rls, derived, "Sentinel1A")]
    ELSE [prediction |-> "null", confidence |-> 0]

\* Classify with the fallback threshold inclusive (altitude <= 500)
Classify_FallbackInclusive(rls, derived) ==
    IF matchesRules(rls, derived, "ISS")
    THEN [prediction |-> "ISS",
          confidence |-> calculateConfidence(rls, derived, "ISS")]
    ELSE IF matchesRules(rls, derived, "Sentinel1A")
    THEN [prediction |-> "Sentinel1A",
          confidence |-> calculateConfidence(rls, derived, "Sentinel1A")]
    ELSE IF derived.altitude <= Km(500)
    THEN [prediction |-> "ISS", confidence |-> Conf(70)]
    ELSE [prediction |-> "Sentinel1A", confidence |-> Conf(70)]

\* Classify with the Sentinel1A rules checked before the ISS rules
Classify_SentinelFirst(rls, derived) ==
    IF matchesRules(rls, derived, "Sentinel1A")
    THEN [prediction |-> "Sentinel1A",
          confidence |-> calculateConfidence(rls, derived, "Sentinel1A")]
    ELSE IF matchesRules(rls, derived, "ISS")
    THEN [prediction |-> "ISS",
          confidence |-> calculateConfidence(rls, derived, "ISS")]
    ELSE IF derived.altitude < Km(500)
    THEN [prediction |-> "ISS", confidence |-> Conf(70)]
    ELSE [prediction |-> "Sentinel1A", confidence |-> Conf(70)]

\* predict, "Classification logic": the class and its confidence
Classify(rls, derived) ==
    IF matchesRules(rls, derived, "ISS")
    THEN [prediction |-> "ISS",
          confidence |-> calculateConfidence(rls, derived, "ISS")]
    ELSE IF matchesRules(rls, derived, "Sentinel1A")
    THEN [prediction |-> "Sentinel1A",
          confidence |-> calculateConfidence(rls, derived, "Sentinel1A")]
    ELSE IF derived.altitude < Km(500)
    THEN [prediction |-> "ISS", confidence |-> Conf(70)]
    ELSE [prediction |-> "Sentinel1A", confidence |-> Conf(70)]

NoDerived ==
    [totalVelocity |-> 0, radialDistance |-> 0, altitude |-> 0,
     orbitalVelocity |-> Finite(0)]

NoEngineResult ==
    [status |-> "none", prediction |-> "null", confidence |-> 0,
     probabilities |-> [ISS |-> 0, Sentinel1A |-> 0],
     errors |-> << >>, rawFeatures |-> NoDerived]

\* predict, "Calculate class probabilities" with both classes given the
\* confidence
Probabilities_BothConfidence(prediction, confidence) ==
    [ISS |-> confidence, Sentinel1A |-> confidence]

\* predict, "Calculate class probabilities"
Probabilities(prediction, confidence) ==
    [ISS |-> IF prediction = "ISS" THEN confidence ELSE ConfScale - confidence,
     Sentinel1A |-> IF prediction = "Sentinel1A"
                    THEN confidence ELSE ConfScale - confidence]

\* predict: the returned result, or the error thrown by validateInput
SatelliteClassifier_predict(rls, inputData) ==
    LET errors == SatelliteClassifier_validateInput(inputData)
    IN IF errors # << >>
       THEN [NoEngineResult EXCEPT !.status = "error", !.errors = errors]
       ELSE LET derived == SatelliteClassifier_calculateDerivedFeatures(inputData)
                c == Classify(rls, derived)
            IN [status |-> "ok",
                prediction |-> c.prediction,
                confidence |-> c.confidence,
                probabilities |-> Probabilities(c.prediction, c.confidence),
                errors |-> << >>,
                rawFeatures |-> derived]

---------------------------------------------------------------------------
(* assets/js/app.js: validation and classifier used by the form and batch *)

\* The input object handed to predictSatellite
AppInput(s) ==
    [latitude |-> s.lat, longitude |-> s.lon,
     x_eci |-> s.x, y_eci |-> s.y, z_eci |-> s.z,
     vel_x |-> s.vx, vel_y |-> s.vy, vel_z |-> s.vz]

requiredFields ==
    <<"latitude", "longitude", "x_eci", "y_eci", "z_eci", "vel_x", "vel_y", "vel_z">>

\* the value a field takes in a numeric comparison (null converts to 0)
IsComparable(x) == x.k \in {"num", "null"}

\* (data.field || 0)
OrZero(x) == IF x.k = "num" THEN x.v ELSE 0

RECURSIVE FieldErrors(_, _)
\* the loop over requiredFields: every error it pushes, in order
FieldErrors(data, i) ==
    IF i > Len(requiredFields) THEN << >>
    ELSE (IF IsMissing(data[requiredFields[i]])
          THEN << Err("Missing required field", requiredFields[i]) >> ELSE << >>)
         \o (IF IsNotNumber(data[requiredFields[i]])
             THEN << Err("Invalid numeric value for", requiredFields[i]) >> ELSE << >>)
         \o FieldErrors(data, i + 1)

\* data.f !== undefined && (data.f < lo || data.f > hi)
OutOfRange(x, lo, hi) == IsComparable(x) /\ (x.v < lo \/ x.v > hi)

\* data.f !== undefined && Math.abs(data.f) > 20
Unrealistic(x) == IsComparable(x) /\ Abs(x.v) > 20 * VelScale

\* validateInput: the errors array it returns
validateInput(data) ==
    LET eci_magnitude ==
            SqrtRep(OrZero(data.x_eci) * OrZero(data.x_eci)
                      + OrZero(data.y_eci) * OrZero(data.y_eci)
                      + OrZero(data.z_eci) * OrZero(data.z_eci), PosRefine)
    IN FieldErrors(data, 1)
       \o (IF OutOfRange(data.latitude, -90 * DegScale, 90 * DegScale)
           THEN << Err("out of range", "latitude") >> ELSE << >>)
       \o (IF OutOfRange(data.longitude, -180 * DegScale, 180 * DegScale)
           THEN << Err("out of range", "longitude") >> ELSE << >>)
       \o (IF Unrealistic(data.vel_x)
           THEN << Err("seems unrealistic", "vel_x") >> ELSE << >>)
       \o (IF Unrealistic(data.vel_y)
           THEN << Err("seems unrealistic", "vel_y") >> ELSE << >>)
       \o (IF Unrealistic(data.vel_z)
           THEN << Err("seems unrealistic", "vel_z") >> ELSE << >>)
       \o (IF eci_magnitude < Km(6371)
           THEN << Err("inside Earth", "eci") >> ELSE << >>)
       \o (IF eci_magnitude > Km(100000)
           THEN << Err("too far from Earth", "eci") >> ELSE << >>)

calculateDerivedFeatures(data) ==
    [totalVelocity |->
        SqrtRep(data.vel_x.v * data.vel_x.v + data.vel_y.v * data.vel_y.v
                  + data.vel_z.v * data.vel_z.v, VelRefine),
     radialDistance |->
        SqrtRep(data.x_eci.v * data.x_eci.v + data.y_eci.v * data.y_eci.v
                  + data.z_eci.v * data.z_eci.v, PosRefine)]

\* predictSatellite, the threshold chain: the class and its confidence
AppClassify(data, derived, altitude) ==
    IF altitude < Km(450) /\ derived.totalVelocity > Kms(760)
    THEN [prediction |-> "ISS", confidence |-> Conf(95)]
    ELSE IF altitude > Km(650) /\ derived.totalVelocity < Kms(760)
    THEN [prediction |-> "Sentinel1A", confidence |-> Conf(92)]
    ELSE IF Abs(data.latitude.v) < 52 * DegScale /\ altitude < Km(450)
    THEN [prediction |-> "ISS", confidence |-> Conf(88)]
    ELSE [prediction |-> "Sentinel1A", confidence |-> Conf(75)]

NoAppResult ==
    [status |-> "none", prediction |-> "null", confidence |-> 0,
     errors |-> << >>, altitude |-> 0,
     rawFeatures |-> [totalVelocity |-> 0, radialDistance |-> 0]]

\* predictSatellite: the returned result, or the error thrown
predictSatellite(data) ==
    LET validationErrors == validateInput(data)
    IN IF Len(validationErrors) > 0
       THEN [NoAppResult EXCEPT !.status = "error", !.errors = validationErrors]
       ELSE LET derived == calculateDerivedFeatures(data)
                altitude == derived.radialDistance - Km(6371)
                c == AppClassify(data, derived, altitude)
            IN [status |-> "ok",
                prediction |-> c.prediction,
                confidence |-> c.confidence,
                errors |-> << >>,
                altitude |-> altitude,
                rawFeatures |-> derived]

---------------------------------------------------------------------------
(* Inputs *)

MaxPosStep == 4

MaxVelStep == 8

\* README "Test Case 1: ISS Prediction", loadSampleData('ISS')
SampleISS ==
    [lat |-> Num(516), lon |-> Num(-1220),
     x |-> Num(13543), y |-> Num(200), z |-> Num(400),
     vx |-> Num(766), vy |-> Num(50), vz |-> Num(30)]

\* README "Test Case 2: Sentinel1A Prediction", loadSampleData('Sentinel1A')
SampleSentinel1A ==
    [lat |-> Num(982), lon |-> Num(450),
     x |-> Num(14130), y |-> Num(1000), z |-> Num(2000),
     vx |-> Num(745), vy |-> Num(-50), vz |-> Num(-30)]

LatValues ==
    {Num(-91 * DegScale), Num(-90 * DegScale), Num(516), Num(90 * DegScale),
     Num(982), Num(100 * DegScale), Undefined, NaN}

LonValues == {Num(-1220), Num(450), Num(200 * DegScale), Undefined}

\* Positions <<x, y, z>>: the documented ones, the origin, a missing
\* component, the two sides of the 500 km fallback threshold, a point half
\* a kilometre off the centre of the ISS range, and sweeps through the
\* radial ranges of the two classes.
Positions ==
    { <<SampleISS.x, SampleISS.y, SampleISS.z>>,
      <<SampleSentinel1A.x, SampleSentinel1A.y, SampleSentinel1A.z>>,
      <<Num(0), Num(0), Num(0)>>,
      <<Undefined, Num(0), Num(0)>>,
      <<Num(0), Num(6871 * PosScale - 1), Num(0)>>,
      <<Num(0), Num(6871 * PosScale), Num(0)>>,
      <<Num(6776 * PosScale + 1), Num(0), Num(0)>> }
    \cup { <<Num((6766 + 5 * k) * PosScale), Num(0), Num(0)>> : k \in 0..MaxPosStep }
    \cup { <<Num(0), Num(0), Num((7051 + 10 * k) * PosScale)>> : k \in 0..MaxPosStep }

\* Velocities <<vx, vy, vz>>: the documented ones, a non-numeric and an
\* unrealistic component, and a sweep through the two velocity ranges.
Velocities ==
    { <<SampleISS.vx, SampleISS.vy, SampleISS.vz>>,
      <<SampleSentinel1A.vx, SampleSentinel1A.vy, SampleSentinel1A.vz>>,
      <<Num(0), NaN, Num(0)>>,
      <<Num(25 * VelScale), Num(0), Num(0)>> }
    \cup { <<Num(735 + 5 * k), Num(0), Num(0)>> : k \in 0..MaxVelStep }

Samples ==
    { [lat |-> la, lon |-> lo, x |-> p[1], y |-> p[2], z |-> p[3],
       vx |-> v[1], vy |-> v[2], vz |-> v[3]] :
         la \in LatValues, lo \in LonValues, p \in Positions, v \in Velocities }

---------------------------------------------------------------------------
(* assets/js/app.js: the prediction log and CSV batch processing *)

\* A cell of a CSV line, after trim: a decimal literal of value v ("num"), a
\* decimal literal of value v followed by other characters ("prefix", as in
\* "7.66x"), text with no leading number that contains "lat" or "lon" in
\* some case ("name"), or any other text with no leading number, the empty
\* text included ("word").
Cell(k, v) == [k |-> k, v |-> v]

\* parseFloat(v): the longest leading decimal literal, or NaN
parseFloat(cell) == IF cell.k \in {"num", "prefix"} THEN Num(cell.v) ELSE NaN

\* firstLine.includes('lat') || firstLine.includes('lon')
MentionsLatLon(line) == \E j \in 1..Len(line) : line[j].k = "name"

\* line.trim().length > 0; a line is the sequence of its cells, and only a
\* blank line has none
NonBlank(line) == Len(line) > 0

\* .filter(line => line.length > 0)
RECURSIVE Filter(_)
Filter(text) ==
    IF Len(text) = 0 THEN << >>
    ELSE IF NonBlank(Head(text)) THEN <<Head(text)>> \o Filter(Tail(text))
    ELSE Filter(Tail(text))

\* altitude.toFixed(2) followed by parseFloat: hundredths of a kilometre,
\* half away from zero
ToFixed2(altitude) ==
    IF altitude >= 0 THEN (altitude * 5 + 1) \div 2
    ELSE -((-altitude * 5 + 1) \div 2)

\* logPrediction pushing onto the front of the log
logPrediction_Unshift(log, input, output) ==
    <<[input |-> input, output |-> output]>> \o log

\* logPrediction: the log after predictionLog.push of the entry (its
\* timestamp and processing time are left out)
logPrediction(log, input, output) ==
    Append(log, [input |-> input, output |-> output])

\* updatePerformanceStats: the text it puts into #totalPredictions
updatePerformanceStats(log) == Len(log)

\* clearHistory: the log after it, confirmed being the answer to confirm(...)
clearHistory(log, confirmed) == IF confirmed THEN << >> ELSE log

\* the outcome of the row loop before its first row, log being the
\* prediction log
NoRows(log) == [results |-> << >>, errors |-> << >>, log |-> log]

RowError(lineNumber, reason) == [lineNumber |-> lineNumber, reason |-> reason]

\* the object made of the first eight numbers of a row
RowData(nums) ==
    [latitude |-> nums[1], longitude |-> nums[2],
     x_eci |-> nums[3], y_eci |-> nums[4], z_eci |-> nums[5],
     vel_x |-> nums[6], vel_y |-> nums[7], vel_z |-> nums[8]]

\* the try block of the row loop: the outcome acc of the rows before, after
\* the prediction result of the row data of line lineNumber
RowPredicted(acc, data, result, lineNumber) ==
    IF result.status = "ok"
    THEN [acc EXCEPT
            !.results = Append(@, [data |-> data, result |-> result,
                                   lineNumber |-> lineNumber]),
            !.log = logPrediction(@, data, result)]
    ELSE [acc EXCEPT !.errors = Append(@, RowError(lineNumber, "prediction"))]

\* the body of the row loop for the line values
RowStep(acc, values, lineNumber) ==
    IF Len(values) < 8
    THEN [acc EXCEPT !.errors = Append(@, RowError(lineNumber, "columns"))]
    ELSE IF \E j \in 1..8 : IsNotNumber(parseFloat(values[j]))
    THEN [acc EXCEPT !.errors = Append(@, RowError(lineNumber, "numeric"))]
    ELSE CHOOSE next \in
           {RowPredicted(acc, data, result, lineNumber) :
              data \in {RowData([j \in 1..8 |-> parseFloat(values[j])])},
              result \in {predictSatellite(
                             RowData([j \in 1..8 |-> parseFloat(values[j])]))}} :
           TRUE

RECURSIVE RowLoop_StopAtFailure(_, _, _)
\* the row loop with a break after the first failing line
RowLoop_StopAtFailure(lines, i, acc) ==
    IF i > Len(lines) \/ Len(acc.errors) > 0 THEN acc
    ELSE CHOOSE rest \in
           {RowLoop_StopAtFailure(lines, i + 1, next) :
              next \in {RowStep(acc, lines[i], i)}} :
           TRUE

RECURSIVE RowLoop(_, _, _)
\* for (let i = startIdx; i < lines.length; i++): i here counts from 1, so
\* the code's i + 1 is i
RowLoop(lines, i, acc) ==
    IF i > Len(lines) THEN acc
    ELSE CHOOSE rest \in
           {RowLoop(lines, i + 1, next) : next \in {RowStep(acc, lines[i], i)}} :
           TRUE

NoStats ==
    [count |-> 0, issCount |-> 0, sentinelCount |-> 0,
     confidenceSum |-> 0, altitudeSum |-> 0]

RECURSIVE StatsOf(_)
\* the filters and the reduce calls of displayBatchResults over a sequence
\* of prediction results; a mean is kept as its sum over count
StatsOf(outputs) ==
    IF Len(outputs) = 0 THEN NoStats
    ELSE LET r == Head(outputs)
             rest == StatsOf(Tail(outputs))
         IN [count |-> rest.count + 1,
             issCount |-> rest.issCount + (IF r.prediction = "ISS" THEN 1 ELSE 0),
             sentinelCount |->
                 rest.sentinelCount + (IF r.prediction = "Sentinel1A" THEN 1 ELSE 0),
             confidenceSum |-> rest.confidenceSum + r.confidence,
             altitudeSum |-> rest.altitudeSum + ToFixed2(r.altitude)]

\* displayBatchResults with the statistics taken from the whole prediction
\* log instead of the rows of this file
displayBatchResults_FromLog(results, log) ==
    StatsOf([i \in 1..Len(log) |-> log[i].output])

\* displayBatchResults: issCount, sentinelCount, avgConfidence and
\* avgAltitude of the rows handed over (log is the prediction log, which
\* the function does not read)
displayBatchResults(results, log) ==
    StatsOf([i \in 1..Len(results) |-> results[i].result])

NoBatch ==
    [runs |-> 0, results |-> << >>, errors |-> << >>, fatal |-> "none",
     displayed |-> FALSE, stats |-> NoStats]

\* the end of reader.onload with displayBatchResults called whatever the
\* number of results
AfterRows_ShowEmpty(rows, log, runs) ==
    [batch |-> [runs |-> runs + 1,
                results |-> rows.results,
                errors |-> rows.errors,
                fatal |-> "none",
                displayed |-> TRUE,
                stats |-> displayBatchResults(rows.results, rows.log)],
     log |-> rows.log]

\* the end of reader.onload: what is shown and logged after the row loop
\* left rows, log being the prediction log before the load
AfterRows(rows, log, runs) ==
    IF Len(rows.results) > 0
    THEN [batch |-> [runs |-> runs + 1,
                     results |-> rows.results,
                     errors |-> rows.errors,
                     fatal |-> "none",
                     displayed |-> TRUE,
                     stats |-> displayBatchResults(rows.results, rows.log)],
          log |-> rows.log]
    ELSE [batch |-> [NoBatch EXCEPT
                       !.runs = runs + 1,
                       !.errors = rows.errors,
                       !.fatal = "No valid data rows found in CSV file"],
          log |-> rows.log]

\* reader.onload: the outcome of processing the text csv when the
\* prediction log is log; runs counts the loads so far
onload(csv, log, runs) ==
    CHOOSE out \in
      {IF Len(lines) = 0
       THEN [batch |-> [NoBatch EXCEPT !.runs = runs + 1,
                                       !.fatal = "CSV file is empty"],
             log |-> log]
       ELSE LET hasHeader == MentionsLatLon(lines[1])
                startIdx == IF hasHeader THEN 1 ELSE 0
            IN CHOOSE after \in
                 {AfterRows(rows, log, runs) :
                    rows \in {RowLoop(lines, startIdx + 1, NoRows(log))}} : TRUE
       : lines \in {Filter(csv)}} : TRUE

\* value || 'N/A' for a number of the input
OrNA(value) ==
    IF value.k = "num" /\ value.v # 0 THEN value ELSE [k |-> "N/A", v |-> 0]

\* the row downloadBatchResults makes of one entry of the prediction log
\* (timestamp and processing time left out): confidence.toFixed(4) in
\* ten-thousandths, features.altitude in hundredths of a kilometre and
\* features.totalVelocity in ten-thousandths of a km/s
ExportRow(entry) ==
    [prediction |-> entry.output.prediction,
     confidence |-> (entry.output.confidence * 10000 + ConfScale \div 2)
                      \div ConfScale,
     latitude |-> OrNA(entry.input.latitude),
     longitude |-> OrNA(entry.input.longitude),
     altitude |-> ToFixed2(entry.output.altitude),
     totalVelocity |-> (entry.output.rawFeatures.totalVelocity * 10000)
                         \div Kms(1)]

\* downloadBatchResults: the rows below the header line of the file it
\* offers, log being the prediction log
downloadBatchResults(log) == [i \in 1..Len(log) |-> ExportRow(log[i])]

\* The lines a CSV text is made of here
BlankLine == << >>

HeaderLine == [j \in 1..8 |-> Cell("name", 0)]

SampleCells(s) ==
    <<Cell("num", s.lat.v), Cell("num", s.lon.v),
      Cell("num", s.x.v), Cell("num", s.y.v), Cell("num", s.z.v),
      Cell("num", s.vx.v), Cell("num", s.vy.v), Cell("num", s.vz.v)>>

\* a Sentinel-1A state that passes the validation of the page: 700 km up, 7.45 km/s
SampleSentinelValid ==
    [lat |-> Num(516), lon |-> Num(450),
     x |-> Num(0), y |-> Num(0), z |-> Num(7071 * PosScale),
     vx |-> Num(745), vy |-> Num(0), vz |-> Num(0)]

RowISS == SampleCells(SampleISS)

RowSentinel == SampleCells(SampleSentinelValid)

\* the documented Sentinel-1A sample, whose latitude the page rejects
RowRejected == SampleCells(SampleSentinel1A)

\* seven columns
RowShort == SubSeq(RowISS, 1, 7)

\* vel_x is "abc"
RowWord == [RowISS EXCEPT ![6] = Cell("word", 0)]

\* vel_x is "7.66x"
RowPrefix == [RowISS EXCEPT ![6] = Cell("prefix", SampleISS.vx.v)]

LineKinds ==
    {BlankLine, HeaderLine, RowISS, RowSentinel, RowRejected, RowShort,
     RowWord, RowPrefix}

MaxLines == 3

RECURSIVE TextsOfLength(_)
TextsOfLength(n) ==
    IF n = 0 THEN {<< >>}
    ELSE {Append(t, l) : t \in TextsOfLength(n - 1), l \in LineKinds}

\* the CSV texts of at most n lines
Texts(n) == UNION {TextsOfLength(k) : k \in 0..n}

\* the number of loads followed for one file
MaxBatchRuns == 2

---------------------------------------------------------------------------
(* js/model_config.js: PerformanceMonitor *)

\* the metrics a new PerformanceMonitor starts with; predictionsByClass
\* holds a count per class, 0 for a class that is no key of the object, and
\* avgProcessingTime is kept as a fraction
InitialMetrics ==
    [totalPredictions |-> 0,
     successfulPredictions |-> 0,
     failedPredictions |-> 0,
     avgProcessingTime |-> [num |-> 0, den |-> 1],
     minProcessingTime |-> Infinity,
     maxProcessingTime |-> Finite(0),
     predictionsByClass |-> [ISS |-> 0, Sentinel1A |-> 0]]

\* Math.min(this.metrics.minProcessingTime, time)
MathMin(a, time) == IF a.finite THEN Finite(Min(a.v, time)) ELSE Finite(time)

\* Math.max(this.metrics.maxProcessingTime, time)
MathMax(a, time) == IF a.finite THEN Finite(Max(a.v, time)) ELSE a

RECURSIVE TotalTime(_)
\* the sum of processingTime over the entries with success
TotalTime(log) ==
    IF Len(log) = 0 THEN 0
    ELSE (IF Head(log).success THEN Head(log).processingTime ELSE 0)
           + TotalTime(Tail(log))

\* updateMetrics, called with the entry already pushed onto log
updateMetrics(m, log, logEntry) ==
    [totalPredictions |-> m.totalPredictions + 1,
     successfulPredictions |-> m.successfulPredictions + 1,
     failedPredictions |-> m.failedPredictions,
     avgProcessingTime |->
         [num |-> TotalTime(log), den |-> m.successfulPredictions + 1],
     minProcessingTime |-> MathMin(m.minProcessingTime, logEntry.processingTime),
     maxProcessingTime |-> MathMax(m.maxProcessingTime, logEntry.processingTime),
     predictionsByClass |->
         IF logEntry.prediction \in DOMAIN m.predictionsByClass
         THEN [m.predictionsByClass EXCEPT ![logEntry.prediction] = @ + 1]
         ELSE m.predictionsByClass]

\* clearHistory of PerformanceMonitor
PerformanceMonitor_clearHistory(log, m) ==
    [predictionLog |-> << >>, metrics |-> InitialMetrics]

\* logPrediction of PerformanceMonitor; output is the class of
\* output.prediction, or "none" for an output without one, and
\* processingTime is in hundredths of a millisecond, as toFixed(2) leaves it
PerformanceMonitor_logPrediction(log, m, output, processingTime) ==
    LET logEntry == [success |-> TRUE, prediction |-> output,
                     processingTime |-> processingTime]
    IN [predictionLog |-> Append(log, logEntry),
        metrics |-> updateMetrics(m, Append(log, logEntry), logEntry)]

\* a logError that counts the failure without counting the prediction
PerformanceMonitor_logError_FailedOnly(log, m) ==
    LET logEntry == [success |-> FALSE, prediction |-> "none",
                     processingTime |-> 0]
    IN [predictionLog |-> Append(log, logEntry),
        metrics |-> [m EXCEPT !.failedPredictions = @ + 1]]

\* logError of PerformanceMonitor
PerformanceMonitor_logError(log, m) ==
    LET logEntry == [success |-> FALSE, prediction |-> "none",
                     processingTime |-> 0]
    IN [predictionLog |-> Append(log, logEntry),
        metrics |-> [m EXCEPT !.failedPredictions = @ + 1,
                              !.totalPredictions = @ + 1]]

\* Array.prototype.slice(start) of a sequence: a negative start counts from
\* the end, and a start beyond either end stops at that end
ArraySlice(array, start) ==
    LET from == IF start < 0
                THEN Max(Len(array) + start, 0)
                ELSE Min(start, Len(array))
    IN SubSeq(array, from + 1, Len(array))

\* getHistory(limit): this.predictionLog.slice(-limit)
getHistory(log, limit) == ArraySlice(log, -limit)

---------------------------------------------------------------------------
(* Feature normalisation and explanation *)

\* SCALER_PARAMS, each entry in the unit of its feature: latitude and
\* longitude in tenths of a degree, positions in half kilometres, velocity
\* components in hundredths of a km/s, total_velocity and radial_distance
\* in the units of Kms and Km
SCALER_PARAMS ==
    [mean |-> <<0, 0, 0, 0, 0, 0, 0, 0, Kms(750), Km(6900)>>,
     std |-> <<90 * DegScale, 180 * DegScale,
               1000 * PosScale, 1000 * PosScale, 1000 * PosScale,
               150, 150, 150, Kms(15), Km(200)>>]

ZScale == 1000

\* (val - mean) / std in thousandths, rounded towards zero
ZScore(val, mean, std) ==
    IF val >= mean THEN ((val - mean) * ZScale) \div std
    ELSE -(((mean - val) * ZScale) \div std)

\* normalizeFeatures: features.map((val, idx) => (val - mean[idx]) / std[idx]);
\* an index past the end of mean reads undefined, and the entry is NaN
normalizeFeatures(scaler, featureVector) ==
    [status |-> "ok",
     value |-> [idx \in 1..Len(featureVector) |->
                   IF idx <= Len(scaler.mean) /\ idx <= Len(scaler.std)
                   THEN Num(ZScore(featureVector[idx], scaler.mean[idx],
                                   scaler.std[idx]))
                   ELSE NaN]]

\* SatelliteClassifier.normalizeFeatures, the same map over this.scaler
SatelliteClassifier_normalizeFeatures(scaler, featureVector) ==
    [status |-> "ok",
     value |-> [idx \in 1..Len(featureVector) |->
                   IF idx <= Len(scaler.mean) /\ idx <= Len(scaler.std)
                   THEN Num(ZScore(featureVector[idx], scaler.mean[idx],
                                   scaler.std[idx]))
                   ELSE NaN]]

NotNormalized == [status |-> "none", value |-> << >>]

\* MODEL_CONFIG.featureImportance in hundredths, in the order of its keys
featureImportance ==
    << <<"radial_distance", 15>>, <<"x_eci_km", 15>>, <<"y_eci_km", 14>>,
       <<"z_eci_km", 13>>, <<"velocity_x", 12>>, <<"velocity_y", 11>>,
       <<"velocity_z", 10>>, <<"longitude", 9>>, <<"total_velocity", 9>>,
       <<"latitude", 8>> >>

RECURSIVE InsertBy(_, _, _)
\* e put into the sorted sequence s after every entry that the comparison
\* (a, b) => sign * (a[1] - b[1]) does not place behind it
InsertBy(sign, e, s) ==
    IF Len(s) = 0 THEN <<e>>
    ELSE IF sign * (e[2] - Head(s)[2]) < 0 THEN <<e>> \o s
    ELSE <<Head(s)>> \o InsertBy(sign, e, Tail(s))

RECURSIVE SortBy(_, _)
\* Array.prototype.sort with that comparison, which is stable
SortBy(sign, s) ==
    IF Len(s) = 0 THEN << >>
    ELSE InsertBy(sign, s[Len(s)], SortBy(sign, SubSeq(s, 1, Len(s) - 1)))

\* .slice(0, n)
Slice(s, n) == SubSeq(s, 1, Min(n, Len(s)))

\* the entries of featureImportance sorted with (a, b) => a[1] - b[1]
TopFeatures_Ascending(contributions) == Slice(SortBy(1, contributions), 5)

\* Object.entries(contributions).sort((a, b) => b[1] - a[1]).slice(0, 5)
TopFeatures(contributions) == Slice(SortBy(-1, contributions), 5)

\* featureValues of explainPrediction in app.js: the value shown for a
\* feature, toFixed(2), in hundredths of its unit
featureValues(data, derived, feature) ==
    CASE feature = "latitude" -> data.latitude.v * (100 \div DegScale)
      [] feature = "longitude" -> data.longitude.v * (100 \div DegScale)
      [] feature = "x_eci_km" -> data.x_eci.v * (100 \div PosScale)
      [] feature = "y_eci_km" -> data.y_eci.v * (100 \div PosScale)
      [] feature = "z_eci_km" -> data.z_eci.v * (100 \div PosScale)
      [] feature = "velocity_x" -> data.vel_x.v
      [] feature = "velocity_y" -> data.vel_y.v
      [] feature = "velocity_z" -> data.vel_z.v
      [] feature = "total_velocity" -> (derived.totalVelocity + 10) \div 20
      [] feature = "radial_distance" -> ToFixed2(derived.radialDistance)

\* explainPrediction of app.js for a result of predictSatellite
explainPrediction(data, derived, prediction) ==
    LET top == TopFeatures(featureImportance)
    IN [i \in 1..Len(top) |->
          [feature |-> top[i][1], importance |-> top[i][2],
           value |-> featureValues(data, derived, top[i][1])]]

\* featureValues of ModelExplainer.explainPrediction, the rawValue of an
\* entry, for the rawFeatures of a result of predict: these name the
\* position x_eci_km, y_eci_km and z_eci_km, so features.x_eci,
\* features.y_eci and features.z_eci are undefined
rawValue(inputData, derived, feature) ==
    CASE feature = "latitude" -> inputData.latitude
      [] feature = "longitude" -> inputData.longitude
      [] feature = "x_eci_km" -> Undefined
      [] feature = "y_eci_km" -> Undefined
      [] feature = "z_eci_km" -> Undefined
      [] feature = "velocity_x" -> inputData.velocity_x
      [] feature = "velocity_y" -> inputData.velocity_y
      [] feature = "velocity_z" -> inputData.velocity_z
      [] feature = "total_velocity" -> Num(derived.totalVelocity)
      [] feature = "radial_distance" -> Num(derived.radialDistance)

\* ModelExplainer.explainPrediction for a result of SatelliteClassifier.predict
ModelExplainer_explainPrediction(inputData, derived, prediction, confidence) ==
    LET top == TopFeatures(featureImportance)
    IN [i \in 1..Len(top) |->
          [feature |-> top[i][1], importance |-> top[i][2],
           value |-> rawValue(inputData, derived, top[i][1])]]

\* the feature vector predict builds for a sample
FeatureVector(s, derived) ==
    <<s.lat.v, s.lon.v, s.x.v, s.y.v, s.z.v, s.vx.v, s.vy.v, s.vz.v,
      derived.totalVelocity, derived.radialDistance>>

\* how many entries a feature vector may have more or fewer than the scaler
MaxExtra == 2

IsNumeric(s) ==
    \A f \in {"lat", "lon", "x", "y", "z", "vx", "vy", "vz"} : s[f].k = "num"

\* feature vectors of the numeric samples at the documented latitudes, cut
\* short or extended with zeros
FeatureVectors ==
    LET full == {FeatureVector(s, calculateDerivedFeatures(AppInput(s))) :
                   s \in {x \in Samples : /\ IsNumeric(x)
                                          /\ x.lat \in {SampleISS.lat, SampleSentinel1A.lat}
                                          /\ x.lon = SampleISS.lon}}
        n == Len(SCALER_PARAMS.mean)
    IN {SubSeq(v, 1, k) : v \in full, k \in (n - MaxExtra)..n}
       \cup {v \o [j \in 1..k |-> 0] : v \in full, k \in 1..MaxExtra}

---------------------------------------------------------------------------
(* assets/js/auth.js.  A storage holds at most one item under SESSION_KEY: *)
(* << >> when getItem returns null, <<session>> otherwise.  login is the   *)
(* only writer of the item, and JSON.parse gives back the three fields     *)
(* JSON.stringify wrote.  The clock counts hours.                          *)

SESSION_EXPIRY_HOURS == 24

\* VALID_CREDENTIALS[username]: the password of a listed user, the member
\* the object inherits under a name such as "constructor", or undefined
VALID_CREDENTIALS(username) ==
    CASE username = "demo" -> [k |-> "string", v |-> "demo123"]
      [] username = "admin" -> [k |-> "string", v |-> "admin123"]
      [] username = "mauro" -> [k |-> "string", v |-> "satellite2025"]
      [] username = "constructor" -> [k |-> "function", v |-> ""]
      [] OTHER -> [k |-> "undefined", v |-> ""]

\* a login that takes every listed user whatever the password
login_AnyPassword(local, session, username, password, rememberMe, time) ==
    LET known == VALID_CREDENTIALS(username)
        sessionData == [username |-> username, loginTime |-> time,
                        rememberMe |-> rememberMe]
    IN IF username # "" /\ password # "" /\ known.k = "string"
       THEN [success |-> TRUE, user |-> username,
             localStorage |-> IF rememberMe THEN <<sessionData>> ELSE local,
             sessionStorage |-> IF rememberMe THEN session
                                ELSE <<sessionData>>]
       ELSE [success |-> FALSE, user |-> "",
             localStorage |-> local, sessionStorage |-> session]

\* login(username, password, rememberMe) at the hour time
login(local, session, username, password, rememberMe, time) ==
    LET known == VALID_CREDENTIALS(username)
        sessionData == [username |-> username, loginTime |-> time,
                        rememberMe |-> rememberMe]
    IN IF username = "" \/ password = ""
       THEN [success |-> FALSE, user |-> "",
             localStorage |-> local, sessionStorage |-> session]
       ELSE IF known.k # "undefined"
               /\ known.k = "string" /\ known.v = password
            THEN [success |-> TRUE, user |-> username,
                  localStorage |->
                      IF rememberMe THEN <<sessionData>> ELSE local,
                  sessionStorage |->
                      IF rememberMe THEN session ELSE <<sessionData>>]
            ELSE [success |-> FALSE, user |-> "",
                  localStorage |-> local, sessionStorage |-> session]

\* clearSession()
clearSession(local, session) ==
    [localStorage |-> << >>, sessionStorage |-> << >>]

\* checkAuth() at the hour time: the session returned, << >> for null,
\* and the storages it leaves
checkAuth(local, session, time) ==
    LET sessionData == IF local # << >> THEN local ELSE session
        kept == [session |-> sessionData,
                 localStorage |-> local, sessionStorage |-> session]
        cleared == [session |-> << >>,
                    localStorage |-> clearSession(local, session).localStorage,
                    sessionStorage |->
                        clearSession(local, session).sessionStorage]
    IN IF sessionData = << >>
       THEN kept
       ELSE IF sessionData[1].username = ""
            THEN cleared
            ELSE IF time - sessionData[1].loginTime > SESSION_EXPIRY_HOURS
                 THEN cleared
                 ELSE kept

\* getCurrentUser() maps the session of checkAuth to its username and
\* loginTime
CurrentUser(found) ==
    IF found = << >>
    THEN << >>
    ELSE <<[username |-> found[1].username,
            loginTime |-> found[1].loginTime]>>

\* the names and passwords typed into the login form
Usernames == {"demo", "admin", "mauro", "constructor", ""}

Passwords == {"demo123", "admin123", "satellite2025", ""}

\* the hours the clock advances between two calls
HourStep == SESSION_EXPIRY_HOURS \div 2

\* the steps of the clock followed
MaxTicks == 3

\* nothing returned yet
NoAuthResult ==
    [op |-> "none", username |-> "", password |-> "", rememberMe |-> FALSE,
     success |-> FALSE, session |-> << >>, user |-> << >>,
     location |-> ""]

---------------------------------------------------------------------------
(* State machines.  Every specification starts from a freshly loaded page  *)
(* and a new PerformanceMonitor and differs in the inputs it draws and in  *)
(* the operations it follows.                                              *)

\* no classifier input
NoSample ==
    [lat |-> Undefined, lon |-> Undefined, x |-> Undefined, y |-> Undefined,
     z |-> Undefined, vx |-> Undefined, vy |-> Undefined, vz |-> Undefined]

ClassifierIdle ==
    /\ rules = classificationRules
    /\ sample = NoSample
    /\ engineResult = NoEngineResult
    /\ appResult = NoAppResult

\* let predictionLog = [] and the page as loaded
AppIdle ==
    /\ file = << >>
    /\ reading = FALSE
    /\ batch = NoBatch
    /\ predictionLog = << >>
    /\ pending = << >>
    /\ totalPredictions = 0

\* new PerformanceMonitor()
MonitorIdle ==
    /\ monLog = << >>
    /\ metrics = InitialMetrics

UtilIdle ==
    /\ features = << >>
    /\ normalized = NotNormalized
    /\ appNormalized = NotNormalized
    /\ explanation = << >>
    /\ engineExplanation = << >>

\* empty storages and no call of SatelliteAuth yet
AuthIdle ==
    /\ localStorage = << >>
    /\ sessionStorage = << >>
    /\ now = 0
    /\ authResult = NoAuthResult
    /\ lastLogin = << >>

\* no history asked for and no file downloaded
QueryIdle ==
    /\ history = [asked |-> FALSE, limit |-> 0, entries |-> << >>]
    /\ exported = [done |-> FALSE, rows |-> << >>]

\* no form submission followed
ObserverIdle ==
    /\ submissions = << >>
    /\ outcomes = << >>

\* the parts of the program a specification leaves as loaded
RestIdle == AuthIdle /\ QueryIdle /\ ObserverIdle

Init ==
    /\ rules \in RuleTables
    /\ sample \in Samples
    /\ engineResult = NoEngineResult
    /\ appResult = NoAppResult
    /\ AppIdle
    /\ MonitorIdle
    /\ UtilIdle
    /\ RestIdle

\* new SatelliteClassifier(config, ...).predict(sample)
Predict ==
    /\ engineResult.status = "none"
    /\ engineResult' = SatelliteClassifier_predict(rules, EngineInput(sample))
    /\ UNCHANGED <<authVars, queryVars, observerVars, rules, sample,
                   appResult, appVars, monitorVars, utilVars>>

\* predictSatellite(sample)
PredictSatellite ==
    /\ appResult.status = "none"
    /\ appResult' = predictSatellite(AppInput(sample))
    /\ UNCHANGED <<authVars, queryVars, observerVars, rules, sample,
                   engineResult, appVars, monitorVars, utilVars>>

Next == Predict \/ PredictSatellite

Spec == Init /\ [][Next]_vars

(* Explanations of the results of the two classifiers *)

InitExplain ==
    /\ rules = classificationRules
    /\ sample \in Samples
    /\ engineResult = NoEngineResult
    /\ appResult = NoAppResult
    /\ AppIdle
    /\ MonitorIdle
    /\ UtilIdle
    /\ RestIdle

\* displayResults: explainPrediction(result.rawFeatures, result.prediction)
ExplainPrediction ==
    /\ appResult.status = "ok"
    /\ explanation = << >>
    /\ explanation' = explainPrediction(AppInput(sample), appResult.rawFeatures,
                                        appResult.prediction)
    /\ UNCHANGED <<authVars, queryVars, observerVars, classifierVars, appVars,
                   monitorVars,
                   features, normalized, appNormalized, engineExplanation>>

\* new ModelExplainer(MODEL_CONFIG).explainPrediction(result.rawFeatures,
\* result.prediction, result.confidence)
ModelExplainerExplainPrediction ==
    /\ engineResult.status = "ok"
    /\ engineExplanation = << >>
    /\ engineExplanation' =
           ModelExplainer_explainPrediction(EngineInput(sample),
                                            engineResult.rawFeatures,
                                            engineResult.prediction,
                                            engineResult.confidence)
    /\ UNCHANGED <<authVars, queryVars, observerVars, classifierVars, appVars,
                   monitorVars,
                   features, normalized, appNormalized, explanation>>

NextExplain ==
    \/ Predict
    \/ PredictSatellite
    \/ ExplainPrediction
    \/ ModelExplainerExplainPrediction

SpecExplain == InitExplain /\ [][NextExplain]_vars

(* Normalisation of a feature vector *)

InitNormalize ==
    /\ ClassifierIdle
    /\ AppIdle
    /\ MonitorIdle
    /\ features \in FeatureVectors
    /\ normalized = NotNormalized
    /\ appNormalized = NotNormalized
    /\ explanation = << >>
    /\ engineExplanation = << >>
    /\ RestIdle

\* new SatelliteClassifier(config, SCALER_PARAMS).normalizeFeatures(features)
NormalizeFeatures ==
    /\ normalized.status = "none"
    /\ normalized' = SatelliteClassifier_normalizeFeatures(SCALER_PARAMS, features)
    /\ UNCHANGED <<authVars, queryVars, observerVars, classifierVars, appVars,
                   monitorVars,
                   features, appNormalized, explanation, engineExplanation>>

\* normalizeFeatures(features) of app.js
AppNormalizeFeatures ==
    /\ appNormalized.status = "none"
    /\ appNormalized' = normalizeFeatures(SCALER_PARAMS, features)
    /\ UNCHANGED <<authVars, queryVars, observerVars, classifierVars, appVars,
                   monitorVars,
                   features, normalized, explanation, engineExplanation>>

NextNormalize == NormalizeFeatures \/ AppNormalizeFeatures

SpecNormalize == InitNormalize /\ [][NextNormalize]_vars

(* The page: form submissions, CSV uploads and the prediction log *)

\* a form submission whose fields parse to the sample s
FormSamples == {SampleSentinelValid, SampleSentinel1A}

\* the entries the log may hold before more form submissions are followed
MaxLog == 1

\* the submit handler of #predictionForm: checkValidity() is the verdict of
\* the browser on the form; a valid submission starts a timer of one second
Submit(s, valid) ==
    /\ pending' = IF valid THEN Append(pending, AppInput(s)) ELSE pending
    /\ batch' = IF valid THEN [batch EXCEPT !.displayed = FALSE] ELSE batch
    /\ UNCHANGED <<authVars, queryVars, classifierVars, file, reading,
                   predictionLog,
                   totalPredictions, monitorVars, utilVars>>

\* a callback that takes the submission made last
PredictionTimeout_NewestFirst ==
    /\ Len(pending) > 0
    /\ \E result \in {predictSatellite(pending[Len(pending)])} :
          /\ pending' = SubSeq(pending, 1, Len(pending) - 1)
          /\ IF result.status = "ok"
             THEN /\ batch' = [batch EXCEPT !.displayed = FALSE]
                  /\ predictionLog' = logPrediction(predictionLog,
                                                    pending[Len(pending)],
                                                    result)
                  /\ totalPredictions' = updatePerformanceStats(predictionLog')
             ELSE UNCHANGED <<batch, predictionLog, totalPredictions>>
    /\ UNCHANGED <<authVars, queryVars, classifierVars, file, reading,
                   monitorVars, utilVars>>

\* the callback of setTimeout in the submit handler; timers of equal delay
\* fire in the order they were set.  displayResults empties #batchResults.
PredictionTimeout ==
    /\ Len(pending) > 0
    /\ \E result \in {predictSatellite(Head(pending))} :
          /\ pending' = Tail(pending)
          /\ IF result.status = "ok"
             THEN /\ batch' = [batch EXCEPT !.displayed = FALSE]
                  /\ predictionLog' = logPrediction(predictionLog, Head(pending), result)
                  /\ totalPredictions' = updatePerformanceStats(predictionLog')
             ELSE UNCHANGED <<batch, predictionLog, totalPredictions>>
    /\ UNCHANGED <<authVars, queryVars, classifierVars, file, reading,
                   monitorVars, utilVars>>

\* the change handler of #csvFile with the file selected
FileChange ==
    /\ ~reading
    /\ batch.runs < MaxBatchRuns
    /\ reading' = TRUE
    /\ batch' = [batch EXCEPT !.displayed = FALSE]
    /\ UNCHANGED <<authVars, queryVars, observerVars, classifierVars, file,
                   predictionLog, pending,
                   totalPredictions, monitorVars, utilVars>>

\* reader.onload
FileLoaded ==
    /\ reading
    /\ \E out \in {onload(file, predictionLog, batch.runs)} :
          /\ batch' = out.batch
          /\ predictionLog' = out.log
          /\ totalPredictions' = updatePerformanceStats(out.log)
    /\ reading' = FALSE
    /\ UNCHANGED <<authVars, queryVars, observerVars, classifierVars, file,
                   pending, monitorVars, utilVars>>

\* clearHistory of app.js; confirmed is the answer to confirm(...)
ClearHistory(confirmed) ==
    /\ predictionLog' = clearHistory(predictionLog, confirmed)
    /\ totalPredictions' = IF confirmed
                           THEN updatePerformanceStats(predictionLog')
                           ELSE totalPredictions
    /\ UNCHANGED <<authVars, queryVars, observerVars, classifierVars, file,
                   reading, batch, pending,
                   monitorVars, utilVars>>

\* the logs a page may hold when a file is selected
InitialLogs ==
    {<< >>,
     logPrediction(<< >>, AppInput(SampleSentinelValid),
                   predictSatellite(AppInput(SampleSentinelValid)))}

InitBatch ==
    /\ ClassifierIdle
    /\ file \in Texts(MaxLines)
    /\ reading = FALSE
    /\ batch = NoBatch
    /\ predictionLog \in InitialLogs
    /\ pending = << >>
    /\ totalPredictions = updatePerformanceStats(predictionLog)
    /\ MonitorIdle
    /\ UtilIdle
    /\ RestIdle

NextBatch ==
    \/ FileChange
    \/ FileLoaded
    \/ \E confirmed \in BOOLEAN : ClearHistory(confirmed)

SpecBatch == InitBatch /\ [][NextBatch]_vars

(* The page and a PerformanceMonitor side by side *)

\* the entries a PerformanceMonitor may hold before more are logged
MaxMonitorLog == 2

\* the longest processing time logged, in hundredths of a millisecond
MaxTime == 1

\* the files uploaded next to form submissions
LogFiles ==
    {<< >>, <<HeaderLine, RowISS, BlankLine, RowWord, RowSentinel>>}

Outputs == {"ISS", "Sentinel1A", "none"}

\* monitor.logPrediction(input, output, processingTime)
MonitorLogPrediction(output, processingTime) ==
    /\ Len(monLog) < MaxMonitorLog
    /\ \E after \in {PerformanceMonitor_logPrediction(monLog, metrics, output,
                                                       processingTime)} :
          /\ monLog' = after.predictionLog
          /\ metrics' = after.metrics
    /\ UNCHANGED <<authVars, queryVars, observerVars, classifierVars, appVars,
                   utilVars>>

\* monitor.logError(input, error)
MonitorLogError ==
    /\ Len(monLog) < MaxMonitorLog
    /\ \E after \in {PerformanceMonitor_logError(monLog, metrics)} :
          /\ monLog' = after.predictionLog
          /\ metrics' = after.metrics
    /\ UNCHANGED <<authVars, queryVars, observerVars, classifierVars, appVars,
                   utilVars>>

\* monitor.clearHistory()
MonitorClearHistory ==
    /\ \E after \in {PerformanceMonitor_clearHistory(monLog, metrics)} :
          /\ monLog' = after.predictionLog
          /\ metrics' = after.metrics
    /\ UNCHANGED <<authVars, queryVars, observerVars, classifierVars, appVars,
                   utilVars>>

InitLog ==
    /\ ClassifierIdle
    /\ file \in LogFiles
    /\ reading = FALSE
    /\ batch = NoBatch
    /\ predictionLog = << >>
    /\ pending = << >>
    /\ totalPredictions = 0
    /\ MonitorIdle
    /\ UtilIdle
    /\ RestIdle

NextLog ==
    \/ \E s \in FormSamples, valid \in BOOLEAN :
          /\ Len(predictionLog) + Len(pending) < MaxLog
          /\ Submit(s, valid)
          /\ UNCHANGED observerVars
    \/ PredictionTimeout /\ UNCHANGED observerVars
    \/ FileChange
    \/ FileLoaded
    \/ \E confirmed \in BOOLEAN : ClearHistory(confirmed)
    \/ \E output \in Outputs, processingTime \in 1..MaxTime :
          MonitorLogPrediction(output, processingTime)
    \/ MonitorLogError
    \/ MonitorClearHistory

SpecLog == InitLog /\ [][NextLog]_vars

(* The session module: calls of SatelliteAuth while the clock advances *)

\* what a call of SatelliteAuth returned and where it sent the page
AuthResult(op, username, password, rememberMe, success, session, user, location) ==
    [op |-> op, username |-> username, password |-> password,
     rememberMe |-> rememberMe, success |-> success, session |-> session,
     user |-> user, location |-> location]

\* SatelliteAuth.login(username, password, rememberMe)
Login(username, password, rememberMe) ==
    /\ \E out \in {login(localStorage, sessionStorage, username, password,
                         rememberMe, now)} :
          /\ localStorage' = out.localStorage
          /\ sessionStorage' = out.sessionStorage
          /\ authResult' = AuthResult("login", username, password, rememberMe,
                                      out.success, << >>, << >>, "")
          /\ lastLogin' = IF out.success
                          THEN <<[username |-> username, loginTime |-> now,
                                  rememberMe |-> rememberMe]>>
                          ELSE lastLogin
    /\ UNCHANGED <<now, queryVars, observerVars, classifierVars, appVars,
                   monitorVars, utilVars>>

\* SatelliteAuth.checkAuth()
CheckAuth ==
    /\ \E out \in {checkAuth(localStorage, sessionStorage, now)} :
          /\ localStorage' = out.localStorage
          /\ sessionStorage' = out.sessionStorage
          /\ authResult' = AuthResult("checkAuth", "", "", FALSE,
                                      out.session # << >>, out.session,
                                      << >>, "")
    /\ UNCHANGED <<now, lastLogin, queryVars, observerVars, classifierVars,
                   appVars, monitorVars, utilVars>>

\* SatelliteAuth.requireAuth()
RequireAuth ==
    /\ \E out \in {checkAuth(localStorage, sessionStorage, now)} :
          /\ localStorage' = out.localStorage
          /\ sessionStorage' = out.sessionStorage
          /\ authResult' = AuthResult("requireAuth", "", "", FALSE,
                                      out.session # << >>, out.session, << >>,
                                      IF out.session = << >>
                                      THEN "index.html" ELSE "")
    /\ UNCHANGED <<now, lastLogin, queryVars, observerVars, classifierVars,
                   appVars, monitorVars, utilVars>>

\* SatelliteAuth.redirectIfAuthenticated()
RedirectIfAuthenticated ==
    /\ \E out \in {checkAuth(localStorage, sessionStorage, now)} :
          /\ localStorage' = out.localStorage
          /\ sessionStorage' = out.sessionStorage
          /\ authResult' = AuthResult("redirectIfAuthenticated", "", "",
                                      FALSE, out.session # << >>, << >>,
                                      << >>,
                                      IF out.session = << >>
                                      THEN "" ELSE "dashboard.html")
    /\ UNCHANGED <<now, lastLogin, queryVars, observerVars, classifierVars,
                   appVars, monitorVars, utilVars>>

\* SatelliteAuth.getCurrentUser()
GetCurrentUser ==
    /\ \E out \in {checkAuth(localStorage, sessionStorage, now)} :
          /\ localStorage' = out.localStorage
          /\ sessionStorage' = out.sessionStorage
          /\ authResult' = AuthResult("getCurrentUser", "", "", FALSE,
                                      out.session # << >>, << >>,
                                      CurrentUser(out.session), "")
    /\ UNCHANGED <<now, lastLogin, queryVars, observerVars, classifierVars,
                   appVars, monitorVars, utilVars>>

\* SatelliteAuth.clearSession()
ClearSession ==
    /\ \E out \in {clearSession(localStorage, sessionStorage)} :
          /\ localStorage' = out.localStorage
          /\ sessionStorage' = out.sessionStorage
    /\ authResult' = AuthResult("clearSession", "", "", FALSE, FALSE, << >>,
                                << >>, "")
    /\ UNCHANGED <<now, lastLogin, queryVars, observerVars, classifierVars,
                   appVars, monitorVars, utilVars>>

\* SatelliteAuth.logout()
Logout ==
    /\ \E out \in {clearSession(localStorage, sessionStorage)} :
          /\ localStorage' = out.localStorage
          /\ sessionStorage' = out.sessionStorage
    /\ authResult' = AuthResult("logout", "", "", FALSE, FALSE, << >>, << >>,
                                "index.html")
    /\ UNCHANGED <<now, lastLogin, queryVars, observerVars, classifierVars,
                   appVars, monitorVars, utilVars>>

\* time passes between two calls
Tick ==
    /\ now < MaxTicks * HourStep
    /\ now' = now + HourStep
    /\ UNCHANGED <<localStorage, sessionStorage, authResult, lastLogin,
                   queryVars, observerVars, classifierVars, appVars,
                   monitorVars, utilVars>>

InitAuth ==
    /\ ClassifierIdle
    /\ AppIdle
    /\ MonitorIdle
    /\ UtilIdle
    /\ RestIdle

NextAuth ==
    \/ \E username \in Usernames, password \in Passwords,
          rememberMe \in BOOLEAN : Login(username, password, rememberMe)
    \/ CheckAuth
    \/ RequireAuth
    \/ RedirectIfAuthenticated
    \/ GetCurrentUser
    \/ ClearSession
    \/ Logout
    \/ Tick

SpecAuth == InitAuth /\ [][NextAuth]_vars

(* The parsing of the rows of a CSV file, rows with more than eight        *)
(* columns included                                                        *)

\* the ISS row followed by a ninth column that is no number
RowExtraWord == Append(RowISS, Cell("word", 0))

\* the ISS row followed by a ninth column that is a number
RowExtraNumber == Append(RowISS, Cell("num", 0))

\* the row whose vel_x is "abc" followed by a ninth column that is a number
RowWordExtraNumber == Append(RowWord, Cell("num", 0))

\* the row whose vel_x is "7.66x" followed by a ninth column
RowPrefixExtraWord == Append(RowPrefix, Cell("word", 0))

ParseLineKinds ==
    {HeaderLine, RowISS, RowShort, RowWord, RowPrefix, RowExtraWord,
     RowExtraNumber, RowWordExtraNumber, RowPrefixExtraWord}

\* the lines of the longest text parsed
MaxParseLines == 2

RECURSIVE ParseTextsOfLength(_)
ParseTextsOfLength(n) ==
    IF n = 0 THEN {<< >>}
    ELSE {Append(t, l) : t \in ParseTextsOfLength(n - 1),
                         l \in ParseLineKinds}

InitParse ==
    /\ ClassifierIdle
    /\ file \in UNION {ParseTextsOfLength(k) : k \in 0..MaxParseLines}
    /\ reading = FALSE
    /\ batch = NoBatch
    /\ predictionLog = << >>
    /\ pending = << >>
    /\ totalPredictions = 0
    /\ MonitorIdle
    /\ UtilIdle
    /\ RestIdle

NextParse == FileChange \/ FileLoaded

SpecParse == InitParse /\ [][NextParse]_vars

(* CSV uploads followed by the download of their results *)

\* the button "Download Results CSV", which displayBatchResults puts on
\* the page and displayResults removes
DownloadBatchResults ==
    /\ batch.displayed
    /\ exported' = [done |-> TRUE, rows |-> downloadBatchResults(predictionLog)]
    /\ UNCHANGED <<history, authVars, observerVars, classifierVars, appVars,
                   monitorVars, utilVars>>

\* the files whose results are downloaded
DownloadFiles ==
    {<<HeaderLine, RowISS, RowSentinel>>, <<RowISS, RowWord>>,
     <<RowSentinel>>, <<RowShort>>,
     <<RowSentinel, BlankLine, RowISS, RowPrefix>>}

InitDownload ==
    /\ ClassifierIdle
    /\ file \in DownloadFiles
    /\ reading = FALSE
    /\ batch = NoBatch
    /\ predictionLog \in InitialLogs
    /\ pending = << >>
    /\ totalPredictions = updatePerformanceStats(predictionLog)
    /\ MonitorIdle
    /\ UtilIdle
    /\ RestIdle

NextDownload ==
    \/ FileChange
    \/ FileLoaded
    \/ \E confirmed \in BOOLEAN : ClearHistory(confirmed)
    \/ DownloadBatchResults

SpecDownload == InitDownload /\ [][NextDownload]_vars

(* Form submissions and their timer callbacks, observed, next to CSV loads *)
(* and clears of the history                                               *)

\* the values typed into the form: two the page accepts and the documented
\* Sentinel-1A sample, which its validation rejects
FormInputs == {SampleISS, SampleSentinelValid, SampleSentinel1A}

\* the valid form submissions followed
MaxSubmits == 2

\* a submit event, its data noted when checkValidity() passes
FormSubmit(s, valid) ==
    /\ Len(submissions) < MaxSubmits
    /\ Submit(s, valid)
    /\ submissions' = IF valid THEN Append(submissions, AppInput(s))
                      ELSE submissions
    /\ outcomes' = outcomes

\* a timer callback, its outcome noted: the entry it pushed onto the
\* prediction log, or the alert of its catch block with nothing pushed
FormTimeout ==
    /\ PredictionTimeout
    /\ outcomes' =
         Append(outcomes,
                IF Len(predictionLog') = Len(predictionLog) + 1
                THEN [kind |-> "entry",
                      entry |-> <<predictionLog'[Len(predictionLog')]>>]
                ELSE [kind |-> "error", entry |-> << >>])
    /\ submissions' = submissions

\* the file uploaded between form submissions
FormFiles == {<<RowSentinel, RowWord>>}

InitForm ==
    /\ ClassifierIdle
    /\ file \in FormFiles
    /\ reading = FALSE
    /\ batch = NoBatch
    /\ predictionLog = << >>
    /\ pending = << >>
    /\ totalPredictions = 0
    /\ MonitorIdle
    /\ UtilIdle
    /\ RestIdle

NextForm ==
    \/ \E s \in FormInputs, valid \in BOOLEAN : FormSubmit(s, valid)
    \/ FormTimeout
    \/ FileChange
    \/ FileLoaded
    \/ \E confirmed \in BOOLEAN : ClearHistory(confirmed)

\* what a timer callback does to the timers that are set: the steps of
\* NextForm that take the earliest timer away are those of FormTimeout
TimerFires == Len(pending) > 0 /\ pending' = Tail(pending)

\* a timer that was set fires: the event loop runs every callback whose
\* delay has passed
SpecForm == InitForm /\ [][NextForm]_vars /\ WF_pending(TimerFires)

(* A PerformanceMonitor and the queries of its log *)

\* the largest limit asked of getHistory
MaxLimit == 2

\* monitor.getHistory(limit)
MonitorGetHistory(limit) ==
    /\ history' = [asked |-> TRUE, limit |-> limit,
                   entries |-> getHistory(monLog, limit)]
    /\ UNCHANGED <<exported, authVars, observerVars, classifierVars, appVars,
                   monitorVars, utilVars>>

InitMonitor ==
    /\ ClassifierIdle
    /\ AppIdle
    /\ MonitorIdle
    /\ UtilIdle
    /\ RestIdle

NextMonitor ==
    \/ \E output \in Outputs, processingTime \in 1..MaxTime :
          MonitorLogPrediction(output, processingTime)
    \/ MonitorLogError
    \/ MonitorClearHistory
    \/ \E limit \in 0..MaxLimit : MonitorGetHistory(limit)

SpecMonitor == InitMonitor /\ [][NextMonitor]_vars

TypeOK ==
    /\ rules \in RuleTables
    /\ sample \in Samples \cup {NoSample}
    /\ engineResult.status \in {"none", "ok", "error"}
    /\ appResult.status \in {"none", "ok", "error"}
    /\ reading \in BOOLEAN
    /\ batch.runs \in 0..MaxBatchRuns
    /\ totalPredictions \in Nat
    /\ metrics.totalPredictions \in Nat
    /\ normalized.status \in {"none", "ok"}
    /\ appNormalized.status \in {"none", "ok"}

---------------------------------------------------------------------------
(* Properties of the classifiers *)

Classes == {classes[i] : i \in 1..Len(classes)}

EngineCalled == engineResult.status # "none"

EngineOk == engineResult.status = "ok"

AppCalled == appResult.status # "none"

AppOk == appResult.status = "ok"

\* lo <= value <= hi
Inside(value, range) == range[1] <= value /\ value <= range[2]

OnEdge(value, range) == value = range[1] \/ value = range[2]

\* the derived features of the returned result satisfy the three ranges of c
Satisfies(c) ==
    /\ Inside(engineResult.rawFeatures.altitude, rules[c].altitude_range)
    /\ Inside(engineResult.rawFeatures.totalVelocity, rules[c].velocity_range)
    /\ Inside(engineResult.rawFeatures.radialDistance, rules[c].radial_distance)

\* some error of the sequence names the field
Names(errors, field) == \E i \in 1..Len(errors) : errors[i].field = field

\* C1: for every sample that passes validation, each of the two entry
\* points returns a result whose confidence lies in [0.50, 1.0] and whose
\* class is one of the configured classes.
C1_ConfidenceAndClass ==
    /\ (EngineCalled /\ SatelliteClassifier_validateInput(EngineInput(sample)) = << >>)
         => /\ EngineOk
            /\ engineResult.confidence >= Conf(50)
            /\ engineResult.confidence <= Conf(100)
            /\ engineResult.prediction \in Classes
    /\ (AppCalled /\ validateInput(AppInput(sample)) = << >>)
         => /\ AppOk
            /\ appResult.confidence >= Conf(50)
            /\ appResult.confidence <= Conf(100)
            /\ appResult.prediction \in Classes

\* both entry points have returned a result for the same valid sample
C1_Witness == EngineOk /\ AppOk

\* C2: a valid sample that satisfies neither class's rule set is classified
\* by altitude alone, with confidence exactly 0.70: ISS below 500 km,
\* Sentinel1A from 500 km on.
C2_Fallback ==
    (EngineOk /\ ~Satisfies("ISS") /\ ~Satisfies("Sentinel1A"))
      => /\ engineResult.confidence = Conf(70)
         /\ engineResult.rawFeatures.altitude < Km(500)
              => engineResult.prediction = "ISS"
         /\ engineResult.rawFeatures.altitude >= Km(500)
              => engineResult.prediction = "Sentinel1A"

\* a fallback result at an altitude of exactly 500 km
C2_Witness ==
    /\ EngineOk /\ ~Satisfies("ISS") /\ ~Satisfies("Sentinel1A")
    /\ engineResult.rawFeatures.altitude = Km(500)
    /\ engineResult.prediction = "Sentinel1A"

\* C3: when the sample satisfies the rule set of the predicted class, the
\* confidence is max(0.6 * altitudeScore + 0.4 * velocityScore, 0.90).
C3_BoostedConfidence ==
    (EngineOk /\ (Satisfies("ISS") \/ Satisfies("Sentinel1A")))
      => LET r == rules[engineResult.prediction]
             blend ==
               (6 * RangeScore(engineResult.rawFeatures.altitude, r.altitude_range)
                  + 4 * RangeScore(engineResult.rawFeatures.totalVelocity,
                                   r.velocity_range)) \div 10
         IN /\ engineResult.confidence >= Conf(90)
            /\ engineResult.confidence = Max(blend, Conf(90))

\* a rule match whose blend exceeds the floor without being the maximum
C3_Witness ==
    /\ EngineOk /\ Satisfies(engineResult.prediction)
    /\ engineResult.confidence > Conf(90)
    /\ engineResult.confidence < Conf(100)

\* C4: a sample with one feature exactly on an edge of a class's range and
\* all three features within the closed ranges is a rule match for that
\* class: the result comes from the rule branch, not from the fallback.
C4_ClosedRanges ==
    \A c \in Classes :
      (/\ EngineOk
       /\ Satisfies(c)
       /\ \/ OnEdge(engineResult.rawFeatures.altitude, rules[c].altitude_range)
          \/ OnEdge(engineResult.rawFeatures.totalVelocity, rules[c].velocity_range)
          \/ OnEdge(engineResult.rawFeatures.radialDistance, rules[c].radial_distance))
      => /\ matchesRules(rules, engineResult.rawFeatures, c)
         /\ engineResult.confidence >= Conf(90)
         /\ (c = "ISS" \/ ~Satisfies("ISS")) => engineResult.prediction = c

\* altitude exactly 400 km with the configured rules, classified ISS
C4_Witness ==
    /\ EngineOk
    /\ rules = classificationRules
    /\ engineResult.rawFeatures.altitude = Km(400)
    /\ Satisfies("ISS")
    /\ engineResult.prediction = "ISS"

\* C5: a sample that satisfies both rule sets is classified as ISS.
C5_FirstDeclaredWins ==
    (EngineOk /\ Satisfies("ISS") /\ Satisfies("Sentinel1A"))
      => engineResult.prediction = "ISS"

\* a result for a sample that satisfies both rule sets
C5_Witness == EngineOk /\ Satisfies("ISS") /\ Satisfies("Sentinel1A")

\* the fields of the input that violate a rule of validateInput
ViolatedFields(data) ==
    { required[i] : i \in { j \in 1..Len(required) : IsNotNumber(data[required[j]]) } }
    \cup (IF data.latitude.k = "num"
             /\ (data.latitude.v < -90 * DegScale \/ data.latitude.v > 90 * DegScale)
          THEN {"latitude"} ELSE {})
    \cup (IF data.longitude.k = "num"
             /\ (data.longitude.v < -180 * DegScale \/ data.longitude.v > 180 * DegScale)
          THEN {"longitude"} ELSE {})

\* C6: the validation error raised by predict names every violated field.
C6_AllViolationsListed ==
    EngineCalled =>
      \A f \in ViolatedFields(EngineInput(sample)) : Names(engineResult.errors, f)

\* C7: the documented Sentinel1A sample is classified as Sentinel1A with
\* confidence >= 0.90.
C7_SentinelSample ==
    (EngineCalled /\ sample = SampleSentinel1A /\ rules = classificationRules)
      => /\ EngineOk
         /\ engineResult.prediction = "Sentinel1A"
         /\ engineResult.confidence >= Conf(90)

\* C8: the documented ISS sample is classified as ISS through a rule match
\* with confidence >= 0.90.
C8_ISSSample ==
    (EngineCalled /\ sample = SampleISS /\ rules = classificationRules)
      => /\ EngineOk
         /\ Satisfies("ISS")
         /\ engineResult.prediction = "ISS"
         /\ engineResult.confidence >= Conf(90)

\* predict has returned for the documented ISS sample
C8_Witness ==
    EngineOk /\ sample = SampleISS /\ rules = classificationRules

LatitudeOutside ==
    sample.lat.k = "num"
    /\ (sample.lat.v < -90 * DegScale \/ sample.lat.v > 90 * DegScale)

\* C9: a sample whose latitude is outside [-90, 90] makes both entry points
\* fail with an error that names latitude; -90 and 90 raise no latitude error.
C9_LatitudeError ==
    /\ (LatitudeOutside /\ EngineCalled)
         => engineResult.status = "error" /\ Names(engineResult.errors, "latitude")
    /\ (LatitudeOutside /\ AppCalled)
         => appResult.status = "error" /\ Names(appResult.errors, "latitude")
    /\ (sample.lat \in {Num(-90 * DegScale), Num(90 * DegScale)})
         => /\ ~Names(engineResult.errors, "latitude")
            /\ ~Names(appResult.errors, "latitude")

\* C10: predict surfaces a position of (0,0,0) as an error and never returns
\* a result that contains a non-finite derived value.
C10_DegenerateInput ==
    /\ (EngineCalled /\ sample.x = Num(0) /\ sample.y = Num(0) /\ sample.z = Num(0))
         => engineResult.status = "error"
    /\ EngineOk => engineResult.rawFeatures.orbitalVelocity.finite

---------------------------------------------------------------------------
(* Properties of the probabilities, the batch, the log and the helpers *)

\* the class that is not c
OtherClass(c) == IF c = "ISS" THEN "Sentinel1A" ELSE "ISS"

\* C19: in every result of SatelliteClassifier.predict the probability of
\* the predicted class is the confidence and that of the other class is
\* 1 - confidence, so the two sum to 1 and the predicted class never has the
\* smaller one.
C19_Probabilities ==
    EngineOk =>
        LET p == engineResult.probabilities
            predicted == engineResult.prediction
            other == OtherClass(predicted)
        IN /\ DOMAIN p = Classes
           /\ p[predicted] = engineResult.confidence
           /\ p[other] = ConfScale - engineResult.confidence
           /\ p[predicted] + p[other] = ConfScale
           /\ p[predicted] >= p[other]

\* predict has returned Sentinel1A with a confidence below 1
C19_Witness ==
    /\ EngineOk
    /\ engineResult.prediction = "Sentinel1A"
    /\ engineResult.confidence < ConfScale
    /\ engineResult.probabilities.ISS > 0

\* reader.onload has run on the selected file
Loaded == batch.runs > 0

\* the places in the uploaded text of its lines that are not blank
NonBlankPlaces == {i \in DOMAIN file : Len(file[i]) > 0}

\* the place of the header line of the uploaded text, if it has one: its
\* first line that is not blank, when that line mentions lat or lon
HeaderPlaces ==
    {i \in NonBlankPlaces :
        /\ \A j \in NonBlankPlaces : i <= j
        /\ \E c \in DOMAIN file[i] : file[i][c].k = "name"}

\* the places of the data lines of the uploaded text
DataPlaces == NonBlankPlaces \ HeaderPlaces

\* the number of lines of the text up to place i that are not blank
Rank(i) == Cardinality({j \in NonBlankPlaces : j <= i})

Successes == {batch.results[j].lineNumber : j \in DOMAIN batch.results}

Failures == {batch.errors[j].lineNumber : j \in DOMAIN batch.errors}

\* C11: after a CSV load every data line after the optional header has ended
\* in exactly one of the successes and the failures, whatever happened to
\* the lines before it, so successes plus failures is the number of data
\* lines.
C11_EveryDataLineSettled ==
    Loaded =>
        /\ Len(batch.results) + Len(batch.errors) = Cardinality(DataPlaces)
        /\ \A i \in DataPlaces :
              Cardinality({j \in DOMAIN batch.results :
                              batch.results[j].lineNumber = Rank(i)})
              + Cardinality({j \in DOMAIN batch.errors :
                                batch.errors[j].lineNumber = Rank(i)}) = 1

\* a load in which a line that failed is followed by one that succeeded
C11_Witness ==
    /\ Loaded
    /\ \E e \in Failures, s \in Successes : e < s

\* a cell that is not the text of a number
NonNumericCell(cell) == cell.k # "num"

\* a row of at least eight cells with exactly one non-numeric cell among them
MalformedRow(line) ==
    /\ Len(line) >= 8
    /\ Cardinality({c \in 1..8 : NonNumericCell(line[c])}) = 1

\* a row of numbers that the page accepts
ValidRow(line) ==
    /\ Len(line) >= 8
    /\ \A c \in 1..8 : line[c].k = "num"
    /\ validateInput(RowData([c \in 1..8 |-> Num(line[c].v)])) = << >>

\* C12: a text of N data rows of which exactly one has a non-numeric cell and
\* the others are valid gives N - 1 successes and exactly one failure, and
\* the failure refers to the malformed row.
C12_OneMalformedRow ==
    ( /\ Loaded
      /\ Cardinality({i \in DataPlaces : MalformedRow(file[i])}) = 1
      /\ \A i \in DataPlaces : MalformedRow(file[i]) \/ ValidRow(file[i]) )
    => /\ Len(batch.results) = Cardinality(DataPlaces) - 1
       /\ Len(batch.errors) = 1
       /\ \A i \in DataPlaces : MalformedRow(file[i]) => Rank(i) \in Failures

\* C13: the line number attached to every success and failure is the 1-based
\* place of that line in the uploaded text, blank lines and header counted.
C13_OriginalLineNumbers ==
    Loaded => Successes \cup Failures = DataPlaces

\* C14: a text with no data rows (empty, blank lines only, header only) or in
\* which no row succeeds ends in the fatal batch error, 'CSV file is empty'
\* or 'No valid data rows found', and never in a displayed success result
\* without rows.
C14_NoEmptySuccess ==
    Loaded =>
        /\ (NonBlankPlaces = {}) => batch.fatal = "CSV file is empty"
        /\ (NonBlankPlaces # {} /\ Len(batch.results) = 0)
              => batch.fatal = "No valid data rows found in CSV file"
        /\ batch.fatal # "none" => ~batch.displayed
        /\ batch.displayed => Len(batch.results) > 0

\* a load of a text whose rows have all failed
C14_Witness ==
    /\ Loaded
    /\ Len(batch.errors) > 0
    /\ Len(batch.results) = 0
    /\ batch.fatal = "No valid data rows found in CSV file"

\* C15: a second load of the same text gives the successes, the failures and
\* the statistics of the first, whatever the prediction log holds by then.
C15_SameOutcomeTwice ==
    [][ (reading /\ ~reading' /\ batch.runs >= 1)
          => /\ batch'.results = batch.results
             /\ batch'.errors = batch.errors
             /\ batch'.fatal = batch.fatal
             /\ batch'.stats = batch.stats ]_vars

\* a text with successes loaded twice, the log cleared in between
C15_Witness ==
    /\ batch.runs = 2
    /\ batch.displayed
    /\ Len(batch.errors) > 0
    /\ Len(predictionLog) = Len(batch.results)

\* the results of the two normalizeFeatures that have been called
Normalizations ==
    {r \in {normalized, appNormalized} : r.status # "none"}

\* C16: normalizeFeatures fails with a dimension-mismatch error whenever the
\* length of the feature vector differs from that of the mean and std of
\* the scaler, and returns the z-scores only when the lengths are equal.
C16_DimensionMismatch ==
    \A r \in Normalizations :
        /\ Len(features) # Len(SCALER_PARAMS.mean) => r.status = "error"
        /\ r.status = "ok" => Len(features) = Len(SCALER_PARAMS.mean)

\* the features of an explanation with their importances, in order
Ranking(e) == [i \in DOMAIN e |-> <<e[i].feature, e[i].importance>>]

\* C17: explainPrediction returns at most 5 entries in non-increasing order
\* of importance, and the features, their order and their importances are
\* the same for every sample and every predicted class.
C17_StaticExplanation ==
    LET Static(e) ==
          e # << >> =>
            /\ Len(e) <= 5
            /\ \A i, j \in DOMAIN e : i < j => e[i].importance >= e[j].importance
            /\ Ranking(e) = << <<"radial_distance", 15>>, <<"x_eci_km", 15>>,
                               <<"y_eci_km", 14>>, <<"z_eci_km", 13>>,
                               <<"velocity_x", 12>> >>
    IN Static(explanation) /\ Static(engineExplanation)

\* both explanations produced for a sample the page classifies Sentinel1A
C17_Witness ==
    /\ explanation # << >>
    /\ engineExplanation # << >>
    /\ appResult.prediction = "Sentinel1A"

RECURSIVE SumOfImportance(_)
SumOfImportance(contributions) ==
    IF Len(contributions) = 0 THEN 0
    ELSE Head(contributions)[2] + SumOfImportance(Tail(contributions))

\* C18: the importance weights of the 10 named features, which an
\* explanation ranks, sum to exactly 1.0 (100 hundredths).
C18_WeightsSumToOne ==
    (explanation # << >> \/ engineExplanation # << >>) =>
        /\ Len(featureImportance) = 10
        /\ SumOfImportance(featureImportance) = 100

\* s is t or the beginning of t
IsPrefix(s, t) == Len(s) <= Len(t) /\ SubSeq(t, 1, Len(s)) = s

\* C20: over form submissions, batch loads, monitor logging and clears, a
\* prediction log changes only by growing at its end or by becoming empty,
\* and right after an explicit clear (clearHistory of the page when
\* confirmed, clearHistory of PerformanceMonitor) the log is empty and the
\* counters derived from it are back at their initial values.
C20_AppendOnlyUntilCleared ==
    [][ /\ \/ IsPrefix(predictionLog, predictionLog')
           \/ predictionLog' = << >>
        /\ \/ IsPrefix(monLog, monLog')
           \/ monLog' = << >>
        /\ totalPredictions' = Len(predictionLog')
        /\ ClearHistory(TRUE) => predictionLog' = << >> /\ totalPredictions' = 0
        /\ MonitorClearHistory =>
              /\ monLog' = << >>
              /\ metrics'.totalPredictions = 0
              /\ metrics'.successfulPredictions = 0
              /\ metrics'.failedPredictions = 0
              /\ \A c \in Classes : metrics'.predictionsByClass[c] = 0 ]_vars

\* the page has logged the rows of a file and a form submission on top of
\* them, and the monitor holds as many entries as are followed
C20_Witness ==
    /\ Len(batch.results) > 0
    /\ Len(predictionLog) > Len(batch.results)
    /\ predictionLog[Len(predictionLog)].input = AppInput(SampleSentinelValid)
    /\ Len(monLog) = MaxMonitorLog

---------------------------------------------------------------------------
(* Properties of the scores, of the two classifiers side by side, of the   *)
(* session, of the monitor's queries and of the page's outcomes            *)

\* the centre of a range, when it is a value of the scale
Centre(range) == (range[1] + range[2]) \div 2

\* C23: in calculateConfidence each of the altitude score and the velocity
\* score is 1 at the centre of the range of the predicted class and reaches
\* its minimum of 0 at the two edges of that range.
C23_ScoresVanishAtEdges ==
    EngineOk =>
      LET r == rules[engineResult.prediction]
          altitude == engineResult.rawFeatures.altitude
          velocity == engineResult.rawFeatures.totalVelocity
      IN /\ altitude = Centre(r.altitude_range)
              => RangeScore(altitude, r.altitude_range) = ConfScale
         /\ velocity = Centre(r.velocity_range)
              => RangeScore(velocity, r.velocity_range) = ConfScale
         /\ OnEdge(altitude, r.altitude_range)
              => RangeScore(altitude, r.altitude_range) = 0
         /\ OnEdge(velocity, r.velocity_range)
              => RangeScore(velocity, r.velocity_range) = 0

\* C26: for every sample both entry points accept, predictSatellite of
\* app.js and SatelliteClassifier.predict return the same class.
C26_SameClass ==
    (EngineOk /\ AppOk /\ rules = classificationRules)
      => engineResult.prediction = appResult.prediction

\* the three pairs of VALID_CREDENTIALS
ListedPairs ==
    {<<"demo", "demo123">>, <<"admin", "admin123">>,
     <<"mauro", "satellite2025">>}

\* C21: login returns success and stores a session exactly when (username,
\* password) is one of the three listed pairs; every other input, an empty
\* name or password and a listed name with another password included, is
\* refused and leaves both storages as they were.
C21_LoginExactlyListedPairs ==
    [][Login(authResult'.username, authResult'.password,
             authResult'.rememberMe)
         => IF <<authResult'.username, authResult'.password>> \in ListedPairs
            THEN /\ authResult'.success
                 /\ (IF authResult'.rememberMe
                     THEN localStorage' ELSE sessionStorage')
                      = <<[username |-> authResult'.username,
                           loginTime |-> now,
                           rememberMe |-> authResult'.rememberMe]>>
            ELSE /\ ~authResult'.success
                 /\ UNCHANGED <<localStorage, sessionStorage>>]_vars

\* a listed name with the password of another user was refused while a
\* session of an earlier login stays stored
C21_Witness ==
    /\ authResult.op = "login"
    /\ authResult.username = "demo"
    /\ authResult.password = "admin123"
    /\ ~authResult.success
    /\ localStorage # << >>
    /\ localStorage = lastLogin

\* the sessions the two storages hold
Stored ==
    {localStorage[i] : i \in 1..Len(localStorage)}
      \cup {sessionStorage[i] : i \in 1..Len(sessionStorage)}

\* at most 24 hours have elapsed since the login of the session
Fresh(s) == now - s.loginTime <= SESSION_EXPIRY_HOURS

\* C22: checkAuth returns a stored session as long as at most 24 hours have
\* elapsed since its login; when more than 24 hours have elapsed it returns
\* null and empties both storages, and with nothing stored checkAuth and
\* requireAuth report no session.
C22_ExpiryAfter24Hours ==
    [][(CheckAuth \/ RequireAuth)
         => /\ (\E s \in Stored : Fresh(s))
                 => /\ authResult'.session # << >>
                    /\ authResult'.session[1] \in Stored
                    /\ Fresh(authResult'.session[1])
                    /\ UNCHANGED <<localStorage, sessionStorage>>
            /\ (\A s \in Stored : ~Fresh(s))
                 => /\ authResult'.session = << >>
                    /\ localStorage' = << >>
                    /\ sessionStorage' = << >>]_vars

\* C27: without expiry, checkAuth and getCurrentUser return either no
\* session or the session of the most recent successful login, whatever
\* rememberMe choices the logins made.
C27_MostRecentLogin ==
    now <= SESSION_EXPIRY_HOURS
      => /\ authResult.op = "checkAuth"
              => authResult.session \in {<< >>, lastLogin}
         /\ authResult.op = "getCurrentUser"
              => authResult.user \in {<< >>, CurrentUser(lastLogin)}

\* the last n entries of a log, all of them when it has fewer
LastEntries(log, n) ==
    SubSeq(log, Len(log) - Min(n, Len(log)) + 1, Len(log))

\* C25: getHistory(limit) returns at most limit entries, the most recent
\* ones of the log in log order, for every limit from 0 on and every length
\* of the log.
C25_AtMostLimitEntries ==
    [][MonitorGetHistory(history'.limit)
         => /\ Len(history'.entries) <= history'.limit
            /\ history'.entries = LastEntries(monLog, history'.limit)]_vars

\* the predictions counted per class
CountedByClass ==
    metrics.predictionsByClass.ISS + metrics.predictionsByClass.Sentinel1A

\* C28: after any sequence of logPrediction, logError and clearHistory of a
\* PerformanceMonitor, totalPredictions equals successfulPredictions plus
\* failedPredictions and equals the length of predictionLog, and the counts
\* of predictionsByClass sum to successfulPredictions when every logged
\* output carries a prediction.
C28_CountersAgree ==
    /\ metrics.totalPredictions
         = metrics.successfulPredictions + metrics.failedPredictions
    /\ metrics.totalPredictions = Len(monLog)
    /\ (\A i \in 1..Len(monLog) :
           monLog[i].success => monLog[i].prediction # "none")
         => CountedByClass = metrics.successfulPredictions

\* a failure logged after a prediction of a class
C28_Witness ==
    /\ Len(monLog) = 2
    /\ monLog[1].success /\ monLog[1].prediction = "ISS"
    /\ ~monLog[2].success
    /\ metrics.totalPredictions = 2
    /\ metrics.failedPredictions = 1
    /\ CountedByClass = 1

\* the first eight fields of a line, or all of them when it has fewer
FirstEight(line) == SubSeq(line, 1, Min(8, Len(line)))

\* C24: a batch data line is recorded as a failure whenever it has fewer
\* than 8 fields or one of its first 8 fields is not a number, a field that
\* starts with digits and continues with other characters included; the
\* fields beyond the 8th never affect the outcome, so two data lines with
\* the same first 8 fields end the same way.
C24_MalformedLineFails ==
    Loaded =>
      /\ \A i \in DataPlaces :
            (\/ Len(file[i]) < 8
             \/ \E c \in 1..Min(8, Len(file[i])) : NonNumericCell(file[i][c]))
              => Rank(i) \in Failures
      /\ \A i, j \in DataPlaces :
            FirstEight(file[i]) = FirstEight(file[j])
              => (Rank(i) \in Failures <=> Rank(j) \in Failures)

\* the rows of the results of the file shown on the page
RowsOfBatch ==
    [i \in 1..Len(batch.results) |->
       ExportRow([input |-> batch.results[i].data,
                  output |-> batch.results[i].result])]

\* C29: after a CSV file is processed with k successful rows,
\* downloadBatchResults exports, below the header, exactly the k rows of
\* that file, whatever was predicted before.
C29_ExportsRowsOfTheFile ==
    [][DownloadBatchResults
         => /\ Len(exported'.rows) = Len(batch.results)
            /\ exported'.rows = RowsOfBatch]_vars

\* what the callback of a submission with the data does: the entry it logs,
\* or none when predictSatellite throws
OutcomeOf(data) ==
    CHOOSE o \in
      {IF result.status = "ok"
       THEN [kind |-> "entry",
             entry |-> <<[input |-> data, output |-> result]>>]
       ELSE [kind |-> "error", entry |-> << >>]
       : result \in {predictSatellite(data)}} : TRUE

\* every valid submission so far has one outcome or is still waiting for
\* its timer, in the order of the submissions, and the outcome of the k-th
\* submission is the one of the data captured by the k-th submission
OutcomesInOrder ==
    /\ Len(outcomes) + Len(pending) = Len(submissions)
    /\ pending = SubSeq(submissions, Len(outcomes) + 1, Len(submissions))
    /\ \A k \in 1..Len(outcomes) :
          /\ outcomes[k].kind = OutcomeOf(submissions[k]).kind
          /\ outcomes[k].entry = OutcomeOf(submissions[k]).entry

\* a callback that logs puts its entry at the end of the log, and one that
\* reports an error leaves the log as it is
AppendedLast ==
    FormTimeout
      => LET o == outcomes'[Len(outcomes')]
         IN IF o.kind = "entry"
            THEN predictionLog' = predictionLog \o o.entry
            ELSE predictionLog' = predictionLog

\* C30: in every interleaving of form submissions, timer callbacks, file
\* loads and clearHistory, each form submission that passes the validity
\* check eventually has exactly one outcome: one entry appended to the
\* prediction log, computed from the values captured when it was
\* submitted, or one error report with nothing appended; the entries are
\* appended in submission order.
C30_OneOutcomePerSubmission ==
    /\ []OutcomesInOrder
    /\ [][AppendedLast]_vars
    /\ \A k \in 1..MaxSubmits :
          (Len(submissions) >= k) ~> (Len(outcomes) >= k)

\* two different valid submissions were waiting while a file was loaded,
\* and both have been logged since, in the order they were submitted
C30_Witness ==
    /\ Len(submissions) = 2
    /\ submissions[1] # submissions[2]
    /\ Len(outcomes) = 2
    /\ outcomes[1].kind = "entry" /\ outcomes[2].kind = "entry"
    /\ batch.runs > 0
    /\ Len(predictionLog) >= 3
    /\ predictionLog[Len(predictionLog)] = outcomes[2].entry[1]
    /\ predictionLog[Len(predictionLog) - 1] = outcomes[1].entry[1]

====
